---------------------------- MODULE Spec2Model ----------------------------
(***************************************************************************)
(* A model of the BigInt package (src/bigint/bigint.go): signed decimal    *)
(* integers held as a digit string plus a negative flag.                   *)
(*                                                                         *)
(* A Go string is modelled as a sequence of one-character strings, so      *)
(* "-10" is <<"-", "1", "0">>.  Every conversion the code performs         *)
(* (byte - '0', rune - '0', fmt "%d", strconv.Itoa, reverse, padding,      *)
(* stripping) is computed on these sequences as the code computes it.      *)
(*                                                                         *)
(* Two objects are modelled: a, the receiver of every operation, and b,    *)
(* the argument.  A run-time panic (index out of range) and log.Fatal end  *)
(* the process: proc records it and no operation follows.                  *)
(***************************************************************************)
EXTENDS Integers, Sequences, FiniteSets

VARIABLES a, b, pc, subtractions, proc, last

vars == <<a, b, pc, subtractions, proc, last>>

---------------------------------------------------------------------------
(* Bounds of the model.                                                    *)

\* longest magnitude (in digits) of a constructed operand, and the longest
\* receiver an operation is started on
MaxLen == 2

\* largest absolute value of the machine integer handed to DivideByInt
MaxDivisor == 3

\* cap on the iteration counter of Divide's repeated-subtraction loop
MaxSubtractions == 12

\* width in bits of the machine integer (Go's int) in the runs that divide
\* by every machine integer: a scaled-down int, two's complement
IntBits == 7

\* digits the constructed operands are written with; results of operations
\* range over all ten digits
InputDigits == {"0", "9"}

\* characters of the texts handed to NewBigInt in the construction runs
TextChars == {"0", "1", "9", "-", "+", "n"}

---------------------------------------------------------------------------
(* Characters and the integer conversions of Go.                           *)

DigitChars == <<"0", "1", "2", "3", "4", "5", "6", "7", "8", "9">>

IsDigitChar(c) == \E i \in 1..10 : DigitChars[i] = c

\* the code point of a character (ASCII)
Code(c) ==
  IF IsDigitChar(c) THEN 47 + (CHOOSE i \in 1..10 : DigitChars[i] = c)
  ELSE IF c = "-" THEN 45
  ELSE IF c = "+" THEN 43
  ELSE 110

\* int(s[i] - '0') on a string: byte arithmetic, wrapping modulo 256
ByteMinusZero(c) == (Code(c) - 48) % 256

\* int(r - '0') on a rune (int32): no wrap for ASCII
RuneMinusZero(c) == Code(c) - 48

Abs(n) == IF n < 0 THEN -n ELSE n

\* Go's integer division truncates toward zero
GoDiv(n, d) ==
  IF (n < 0) = (d < 0) THEN Abs(n) \div Abs(d) ELSE -(Abs(n) \div Abs(d))

\* Go's remainder takes the sign of the dividend
GoMod(n, d) == n - d * GoDiv(n, d)

RECURSIVE Itoa(_)
\* strconv.Itoa, and fmt's "%d", of an integer
Itoa(n) ==
  IF n < 0 THEN <<"-">> \o Itoa(-n)
  ELSE IF n < 10 THEN <<DigitChars[n + 1]>>
  ELSE Itoa(n \div 10) \o <<DigitChars[(n % 10) + 1]>>

\* strings.Repeat("0", n)
RepeatZero(n) == [i \in 1..n |-> "0"]

reverse(s) == [i \in 1..Len(s) |-> s[Len(s) + 1 - i]]

---------------------------------------------------------------------------
(* The BigInt struct and its construction.                                 *)

BigInt(v, n) == [value |-> v, negative |-> n]

\* &BigInt{}: the zero value of the struct
EmptyBigInt == BigInt(<<>>, FALSE)

checkDigits(s) == \A i \in 1..Len(s) : Code(s[i]) >= 48 /\ Code(s[i]) <= 57

\* NewBigInt(v): the returned object and error; v[0] on the empty string
\* panics
NewBigInt(v) ==
  IF Len(v) = 0 THEN [panic |-> TRUE, err |-> FALSE, obj |-> EmptyBigInt]
  ELSE IF v[1] = "-"
    THEN IF ~checkDigits(Tail(v))
           THEN [panic |-> FALSE, err |-> TRUE, obj |-> EmptyBigInt]
           ELSE [panic |-> FALSE, err |-> FALSE, obj |-> BigInt(Tail(v), TRUE)]
    ELSE IF ~checkDigits(v)
           THEN [panic |-> FALSE, err |-> TRUE, obj |-> EmptyBigInt]
           ELSE [panic |-> FALSE, err |-> FALSE, obj |-> BigInt(v, FALSE)]

\* ToString without the sign
ToStringUnsigned(x) == x.value

ToString(x) == IF x.negative THEN <<"-">> \o x.value ELSE x.value

Negate(x) == BigInt(x.value, ~x.negative)

---------------------------------------------------------------------------
(* Magnitude comparison, padding, addition and subtraction.                *)

RECURSIVE compareDigits(_, _, _)
\* the digit loop of compareValues, from index i (1-based)
compareDigits(bv, xv, i) ==
  IF i > Len(bv) THEN 0
  ELSE IF RuneMinusZero(bv[i]) > RuneMinusZero(xv[i]) THEN 1
  ELSE IF RuneMinusZero(bv[i]) < RuneMinusZero(xv[i]) THEN -1
  ELSE compareDigits(bv, xv, i + 1)

\* compareValues deciding by length alone
compareValuesByLength(bv, xv) ==
  IF Len(bv) > Len(xv) THEN 1
  ELSE IF Len(bv) < Len(xv) THEN -1
  ELSE 0

compareValues(bv, xv) ==
  IF Len(bv) > Len(xv) THEN 1
  ELSE IF Len(bv) < Len(xv) THEN -1
  ELSE compareDigits(bv, xv, 1)

RECURSIVE compareDigitsInverted(_, _, _)
\* the digit loop of CompareTo's negative/negative branch: the larger digit
\* is the smaller number
compareDigitsInverted(bv, xv, i) ==
  IF i > Len(bv) THEN 0
  ELSE IF RuneMinusZero(bv[i]) > RuneMinusZero(xv[i]) THEN -1
  ELSE IF RuneMinusZero(bv[i]) < RuneMinusZero(xv[i]) THEN 1
  ELSE compareDigitsInverted(bv, xv, i + 1)

\* two negatives compared as if they were positive
compareNegativesAsPositives(bv, xv) == compareValues(bv, xv)

\* CompareTo's negative/negative branch: the longer magnitude is smaller
compareNegatives(bv, xv) ==
  IF Len(bv) > Len(xv) THEN -1
  ELSE IF Len(bv) < Len(xv) THEN 1
  ELSE compareDigitsInverted(bv, xv, 1)

\* CompareTo without its last branch: negative against positive falls
\* through to the final return 0
CompareToFallThrough(bo, xo) ==
  IF ~bo.negative /\ ~xo.negative THEN compareValues(bo.value, xo.value)
  ELSE IF ~bo.negative /\ xo.negative THEN 1
  ELSE IF bo.negative /\ xo.negative THEN compareNegatives(bo.value, xo.value)
  ELSE 0

\* b.CompareTo(x); the positive/positive branch repeats compareValues'
\* computation line for line
CompareTo(bo, xo) ==
  IF ~bo.negative /\ ~xo.negative THEN compareValues(bo.value, xo.value)
  ELSE IF ~bo.negative /\ xo.negative THEN 1
  ELSE IF bo.negative /\ xo.negative THEN compareNegatives(bo.value, xo.value)
  ELSE IF bo.negative /\ ~xo.negative THEN -1
  ELSE 0

\* equalLengths(x, y): the pair <<xVal, yVal>> padded to one length
equalLengths(xv, yv) ==
  IF Len(xv) = Len(yv) THEN <<xv, yv>>
  ELSE IF Len(xv) > Len(yv) THEN <<xv, RepeatZero(Len(xv) - Len(yv)) \o yv>>
  ELSE <<RepeatZero(Len(yv) - Len(xv)) \o xv, yv>>

RECURSIVE adderLoop(_, _, _, _, _)
\* the right-to-left loop of adder: the builder's content and the last carry
adderLoop(x, y, i, overflow, solution) ==
  IF i < 1 THEN [solution |-> solution, overflow |-> overflow]
  ELSE LET digitSum == ByteMinusZero(x[i]) + ByteMinusZero(y[i]) + overflow
       IN adderLoop(x, y, i - 1, GoDiv(digitSum, 10),
                    solution \o Itoa(GoMod(digitSum, 10)))

\* b.adder(addend): the new b.value
adder(bv, addendv) ==
  LET p == equalLengths(addendv, bv)
      r == adderLoop(p[1], p[2], Len(p[1]), 0, <<>>)
      s == IF r.overflow = 0 THEN <<>> ELSE <<"1">>
  IN s \o reverse(r.solution)

RECURSIVE subtractorLoop(_, _, _, _, _)
\* the right-to-left loop of subtractor: the builder's content
subtractorLoop(x, y, i, overflow, sb) ==
  IF i < 1 THEN sb
  ELSE LET xInt == ByteMinusZero(x[i])
           yInt == ByteMinusZero(y[i]) + overflow
       IN IF yInt < xInt
            THEN subtractorLoop(x, y, i - 1, -1, sb \o Itoa(yInt + 10 - xInt))
            ELSE subtractorLoop(x, y, i - 1, 0, sb \o Itoa(yInt - xInt))

RECURSIVE stripTrailingZeros(_)
\* for solution[len(solution)-1] == '0' { solution = solution[0:len-1] };
\* indexing the empty string panics
stripTrailingZeros(solution) ==
  IF Len(solution) = 0 THEN [panic |-> TRUE, value |-> <<>>]
  ELSE IF solution[Len(solution)] = "0"
    THEN stripTrailingZeros(SubSeq(solution, 1, Len(solution) - 1))
    ELSE [panic |-> FALSE, value |-> solution]

\* b.subtractor(subtrahend): the new b.value, or a panic
subtractor(bv, subv) ==
  LET p == equalLengths(subv, bv)
      s == stripTrailingZeros(subtractorLoop(p[1], p[2], Len(p[1]), 0, <<>>))
  IN [panic |-> s.panic, value |-> reverse(s.value)]

---------------------------------------------------------------------------
(* Signed addition and subtraction.  Each operator returns the receiver b  *)
(* and the argument x as the call leaves them, or a panic.                 *)

\* sub is the call of subtractor the operation made, as the pair
\* <<minuend, subtrahend>>, and <<>> when it made none
Outcome(p, bo, xo) == [panic |-> p, b |-> bo, x |-> xo, sub |-> <<>>]

\* the outcome of an operation that called minuend.subtractor(subtrahend)
WithSubtractor(o, minuend, subtrahend) ==
  [o EXCEPT !.sub = <<minuend, subtrahend>>]

\* b.adder(x); b.negative = neg
addInto(bo, xo, neg) == Outcome(FALSE, BigInt(adder(bo.value, xo.value), neg), xo)

\* subtractInto with minuend and subtrahend exchanged: x.subtractor(b)
subtractIntoSwapped(bo, xo, neg) ==
  LET r == subtractor(xo.value, bo.value)
  IN WithSubtractor(IF r.panic THEN Outcome(TRUE, bo, xo)
                    ELSE Outcome(FALSE, BigInt(r.value, neg), xo),
                    xo.value, bo.value)

\* b.subtractor(x); b.negative = neg
subtractInto(bo, xo, neg) ==
  LET r == subtractor(bo.value, xo.value)
  IN WithSubtractor(IF r.panic THEN Outcome(TRUE, bo, xo)
                    ELSE Outcome(FALSE, BigInt(r.value, neg), xo),
                    bo.value, xo.value)

\* subtractFromArg with minuend and subtrahend exchanged
subtractFromArgSwapped(bo, xo, neg) ==
  LET r == subtractor(bo.value, xo.value)
  IN WithSubtractor(IF r.panic THEN Outcome(TRUE, bo, xo)
                    ELSE Outcome(FALSE, BigInt(r.value, neg), xo),
                    bo.value, xo.value)

\* subtractFromArg without the final x.value = xValue: the argument keeps
\* the difference
subtractFromArgNoRestore(bo, xo, neg) ==
  LET r == subtractor(xo.value, bo.value)
  IN WithSubtractor(IF r.panic THEN Outcome(TRUE, bo, xo)
                    ELSE Outcome(FALSE, BigInt(r.value, neg),
                                 BigInt(r.value, xo.negative)),
                    xo.value, bo.value)

\* xValue := x.value; x.subtractor(b); b.value = x.value; b.negative = neg;
\* x.value = xValue
subtractFromArg(bo, xo, neg) ==
  LET xValue == xo.value
      r == subtractor(xo.value, bo.value)
  IN WithSubtractor(IF r.panic THEN Outcome(TRUE, bo, xo)
                    ELSE Outcome(FALSE, BigInt(r.value, neg),
                                 BigInt(xValue, xo.negative)),
                    xo.value, bo.value)

\* b.value = "0"; b.negative = false
setZero(bo, xo) == Outcome(FALSE, BigInt(<<"0">>, FALSE), xo)

\* b.Add(x)
Add(bo, xo) ==
  LET c == compareValues(bo.value, xo.value)
  IN IF c = -1 THEN
       IF ~bo.negative /\ xo.negative THEN subtractFromArg(bo, xo, TRUE)
       ELSE IF ~bo.negative /\ ~xo.negative THEN addInto(bo, xo, FALSE)
       ELSE IF bo.negative /\ xo.negative THEN addInto(bo, xo, TRUE)
       ELSE subtractFromArg(bo, xo, TRUE)
     ELSE IF c = 1 THEN
       IF ~bo.negative /\ xo.negative THEN subtractInto(bo, xo, FALSE)
       ELSE IF ~bo.negative /\ ~xo.negative THEN addInto(bo, xo, FALSE)
       ELSE IF bo.negative /\ xo.negative THEN addInto(bo, xo, TRUE)
       ELSE subtractInto(bo, xo, TRUE)
     ELSE
       IF ~bo.negative /\ ~xo.negative THEN addInto(bo, xo, FALSE)
       ELSE IF ~bo.negative /\ xo.negative THEN setZero(bo, xo)
       ELSE IF bo.negative /\ ~xo.negative THEN setZero(bo, xo)
       ELSE addInto(bo, xo, TRUE)

\* b.Subtract(x)
Subtract(bo, xo) ==
  LET c == compareValues(bo.value, xo.value)
  IN IF c = -1 THEN
       IF ~bo.negative /\ xo.negative THEN addInto(bo, xo, FALSE)
       ELSE IF ~bo.negative /\ ~xo.negative THEN subtractFromArg(bo, xo, TRUE)
       ELSE IF bo.negative /\ xo.negative THEN subtractFromArg(bo, xo, FALSE)
       ELSE addInto(bo, xo, TRUE)
     ELSE IF c = 1 THEN
       IF ~bo.negative /\ xo.negative THEN addInto(bo, xo, FALSE)
       ELSE IF ~bo.negative /\ ~xo.negative THEN subtractInto(bo, xo, FALSE)
       ELSE IF bo.negative /\ xo.negative THEN subtractInto(bo, xo, TRUE)
       ELSE addInto(bo, xo, TRUE)
     ELSE
       IF ~bo.negative /\ ~xo.negative THEN setZero(bo, xo)
       ELSE IF ~bo.negative /\ xo.negative THEN addInto(bo, xo, FALSE)
       ELSE IF bo.negative /\ ~xo.negative THEN addInto(bo, xo, TRUE)
       ELSE setZero(bo, xo)

---------------------------------------------------------------------------
(* Multiplication.                                                         *)

RECURSIVE multiplyByIntHelper(_, _, _, _, _)
\* one shifted single-digit partial product, as a string
multiplyByIntHelper(x, number, powerOf10, overflow, sb) ==
  IF Len(number) = 0
    THEN (IF overflow = 0 THEN <<>> ELSE Itoa(overflow))
         \o reverse(sb) \o RepeatZero(powerOf10)
    ELSE LET multiplicand == ByteMinusZero(number[Len(number)])
             product == multiplicand * x + overflow
         IN multiplyByIntHelper(x, SubSeq(number, 1, Len(number) - 1), powerOf10,
                                GoDiv(product, 10), sb \o Itoa(GoMod(product, 10)))

RECURSIVE multiplyLoop(_, _, _, _)
\* the loop of Multiply over the digits of x, from i (0 at the ones place):
\* the accumulated b.value, or a panic in NewBigInt
multiplyLoop(value, number, xv, i) ==
  IF i >= Len(xv) THEN [panic |-> FALSE, value |-> value]
  ELSE LET multiplier == RuneMinusZero(xv[Len(xv) - i])
           newB == NewBigInt(multiplyByIntHelper(multiplier, number, i, 0, <<>>))
       IN IF newB.panic THEN [panic |-> TRUE, value |-> value]
          ELSE multiplyLoop(adder(value, newB.obj.value), number, xv, i + 1)

\* a sign rule that always gives a non-negative result
resultSignNonNegative(bneg, xneg) == FALSE

\* the sign rule closing Multiply and Divide: negative iff the flags differ
resultSign(bneg, xneg) == IF bneg = xneg THEN FALSE ELSE TRUE

\* b.Multiply(x)
Multiply(bo, xo) ==
  LET r == multiplyLoop(<<"0">>, bo.value, xo.value, 0)
  IN IF r.panic THEN Outcome(TRUE, BigInt(r.value, bo.negative), xo)
     ELSE Outcome(FALSE, BigInt(r.value, resultSign(bo.negative, xo.negative)), xo)

RECURSIVE multiplyLoopAliased(_, _, _, _)
\* the loop of Multiply when x is b itself: xRunes and number were taken
\* before b.value = "0", but the loop's bound x.length() is read from the
\* accumulating b.value at every iteration, and xRunes[len(xRunes)-1-i]
\* panics once i passes the snapshot's length
multiplyLoopAliased(value, number, xRunes, i) ==
  IF i >= Len(value) THEN [panic |-> FALSE, value |-> value]
  ELSE IF Len(xRunes) - i < 1 THEN [panic |-> TRUE, value |-> value]
  ELSE LET multiplier == RuneMinusZero(xRunes[Len(xRunes) - i])
           newB == NewBigInt(multiplyByIntHelper(multiplier, number, i, 0, <<>>))
       IN IF newB.panic THEN [panic |-> TRUE, value |-> value]
          ELSE multiplyLoopAliased(adder(value, newB.obj.value), number, xRunes, i + 1)

\* x.Multiply(x): the new x (b.negative == x.negative compares the flag
\* with itself)
MultiplySelf(xo) ==
  LET r == multiplyLoopAliased(<<"0">>, xo.value, xo.value, 0)
  IN [panic |-> r.panic,
      b |-> IF r.panic THEN BigInt(r.value, xo.negative)
            ELSE BigInt(r.value, resultSign(xo.negative, xo.negative))]

\* x.Add(x): compareValues of a value with itself is 0 and the flags agree,
\* so the branch taken is b.adder(x), whose operands are strings read
\* before b.value is assigned
AddSelf(xo) == [panic |-> Add(xo, xo).panic, b |-> Add(xo, xo).b]

\* x.Subtract(x): the equal-magnitude, equal-sign branch b.value = "0"
SubtractSelf(xo) == [panic |-> Subtract(xo, xo).panic, b |-> Subtract(xo, xo).b]

---------------------------------------------------------------------------
(* Division by a machine integer.                                          *)

RECURSIVE divideByIntLoop(_, _, _, _, _)
\* the left-to-right loop of DivideByInt: the builder's content
divideByIntLoop(dividend, divisor, i, overflow, sb) ==
  IF i > Len(dividend) THEN sb
  ELSE LET digit == overflow * 10 + ByteMinusZero(dividend[i])
       IN divideByIntLoop(dividend, divisor, i + 1, GoMod(digit, divisor),
                          sb \o Itoa(GoDiv(digit, divisor)))

RECURSIVE stripLeadingZeros(_)
\* for solution[0] == '0' { solution = solution[1:] }; indexing the empty
\* string panics
stripLeadingZeros(solution) ==
  IF Len(solution) = 0 THEN [panic |-> TRUE, value |-> <<>>]
  ELSE IF solution[1] = "0" THEN stripLeadingZeros(Tail(solution))
  ELSE [panic |-> FALSE, value |-> solution]

\* DivideByInt without its zero check: the division itself panics
DivideByIntUnchecked(bo, divisor) ==
  IF divisor = 0 THEN [fatal |-> FALSE, panic |-> TRUE, b |-> bo]
  ELSE LET s == stripLeadingZeros(divideByIntLoop(bo.value, divisor, 1, 0, <<>>))
       IN IF s.panic THEN [fatal |-> FALSE, panic |-> TRUE, b |-> bo]
          ELSE [fatal |-> FALSE, panic |-> FALSE, b |-> BigInt(s.value, bo.negative)]

\* b.DivideByInt(divisor): log.Fatal on a zero divisor, else the new b
DivideByInt(bo, divisor) ==
  IF divisor = 0 THEN [fatal |-> TRUE, panic |-> FALSE, b |-> bo]
  ELSE LET s == stripLeadingZeros(divideByIntLoop(bo.value, divisor, 1, 0, <<>>))
       IN IF s.panic THEN [fatal |-> FALSE, panic |-> TRUE, b |-> bo]
          ELSE [fatal |-> FALSE, panic |-> FALSE, b |-> BigInt(s.value, bo.negative)]

---------------------------------------------------------------------------
(* DivideByInt on a machine integer of IntBits bits: int arithmetic wraps. *)

\* the largest int
MaxInt == 2^(IntBits - 1) - 1

\* the int an integer result is stored as: two's complement wrap-around
WrapInt(n) ==
  LET m == n % (2^IntBits)
  IN IF m > MaxInt THEN m - 2^IntBits ELSE m

RECURSIVE divideByIntLoopWrapping(_, _, _, _, _, _)
\* the loop of DivideByInt with digit := overflow*10 + int(dividend[i]-'0')
\* stored in an int: the builder's content and, for each iteration, the
\* window before it is stored, the quotient written and the carry kept
divideByIntLoopWrapping(dividend, divisor, i, overflow, sb, trace) ==
  IF i > Len(dividend) THEN [sb |-> sb, trace |-> trace]
  ELSE LET window == overflow * 10 + ByteMinusZero(dividend[i])
           digit == WrapInt(window)
           quotient == GoDiv(digit, divisor)
           carry == GoMod(digit, divisor)
       IN divideByIntLoopWrapping(dividend, divisor, i + 1, carry,
            sb \o Itoa(quotient),
            Append(trace, [window |-> window, quotient |-> Itoa(quotient),
                           carry |-> carry]))

\* b.DivideByInt(divisor) on the IntBits-bit int
DivideByIntWrapping(bo, divisor) ==
  IF divisor = 0 THEN [fatal |-> TRUE, panic |-> FALSE, b |-> bo]
  ELSE LET s == stripLeadingZeros(
                  divideByIntLoopWrapping(bo.value, divisor, 1, 0, <<>>, <<>>).sb)
       IN IF s.panic THEN [fatal |-> FALSE, panic |-> TRUE, b |-> bo]
          ELSE [fatal |-> FALSE, panic |-> FALSE, b |-> BigInt(s.value, bo.negative)]

---------------------------------------------------------------------------
(* The state machine.                                                      *)

\* what the last call was, on which operands, and what it returned (result
\* is CompareTo's int, 0 for every other call; sub is the last call of
\* subtractor it made, <<minuend, subtrahend>>, <<>> if none)
Last(op, a0, b0, divisor, text, err, remainder) ==
  [op |-> op, a0 |-> a0, b0 |-> b0, divisor |-> divisor, text |-> text,
   err |-> err, remainder |-> remainder, result |-> 0, sub |-> <<>>]

\* a digit string with no superfluous leading zero
Canonical(v) ==
  /\ Len(v) >= 1
  /\ \A i \in 1..Len(v) : IsDigitChar(v[i])
  /\ Len(v) > 1 => v[1] # "0"

\* the texts the operands are constructed from: a canonical digit string of
\* at most MaxLen digits, with a leading '-' unless it is "0"
CanonTexts ==
  LET mags == {m \in UNION {[1..k -> InputDigits] : k \in 1..MaxLen} : Canonical(m)}
  IN mags \cup {<<"-">> \o m : m \in mags \ {<<"0">>}}

\* every text of at most MaxLen + 1 characters, the empty one included
Texts == UNION {[1..k -> TextChars] : k \in 0..(MaxLen + 1)}

\* the divisors handed to DivideByInt: the small ones of both signs, zero,
\* and the 10 of the demonstration
Divisors == ((-MaxDivisor)..MaxDivisor) \cup {10}

\* the operands as NewBigInt returns them
Init ==
  /\ \E ta \in CanonTexts, tb \in CanonTexts :
       /\ a = NewBigInt(ta).obj
       /\ b = NewBigInt(tb).obj
       /\ last = Last("init", NewBigInt(ta).obj, NewBigInt(tb).obj, 0, <<>>, FALSE, <<>>)
  /\ pc = "idle"
  /\ subtractions = 0
  /\ proc = "running"

\* no call is in progress and the receiver is within the model's bound
Ready == pc = "idle" /\ proc = "running" /\ Len(a.value) <= MaxLen

Finish(r, op) ==
  /\ a' = r.b
  /\ b' = r.x
  /\ proc' = IF r.panic THEN "panicked" ELSE "running"
  /\ last' = [Last(op, a, b, 0, <<>>, FALSE, <<>>) EXCEPT !.sub = r.sub]
  /\ UNCHANGED <<pc, subtractions>>

AddCall == Ready /\ Finish(Add(a, b), "Add")

SubtractCall == Ready /\ Finish(Subtract(a, b), "Subtract")

MultiplyCall == Ready /\ Finish(Multiply(a, b), "Multiply")

NegateCall ==
  /\ Ready
  /\ a' = Negate(a)
  /\ last' = Last("Negate", a, b, 0, <<>>, FALSE, <<>>)
  /\ UNCHANGED <<b, pc, subtractions, proc>>

DivideByIntCall(divisor) ==
  /\ Ready
  /\ LET r == DivideByInt(a, divisor)
     IN /\ a' = r.b
        /\ proc' = IF r.fatal THEN "exited"
                   ELSE IF r.panic THEN "panicked" ELSE "running"
  /\ last' = Last("DivideByInt", a, b, divisor, <<>>, FALSE, <<>>)
  /\ UNCHANGED <<b, pc, subtractions>>

\* result := a.CompareTo(b)
CompareToCall ==
  /\ Ready
  /\ last' = [Last("CompareTo", a, b, 0, <<>>, FALSE, <<>>)
               EXCEPT !.result = CompareTo(a, b)]
  /\ UNCHANGED <<a, b, pc, subtractions, proc>>

\* Divide up to its loop: the two branches without a loop return at once
DivideCall ==
  /\ Ready
  /\ LET c == compareValues(a.value, b.value)
     IN IF c = 1
          THEN /\ pc' = "divide"
               /\ last' = Last("Divide", a, b, 0, <<>>, FALSE, <<"0">>)
               /\ UNCHANGED a
          ELSE IF c = -1
          THEN /\ pc' = "idle"
               /\ last' = Last("Divide", a, b, 0, <<>>, FALSE, a.value)
               /\ a' = BigInt(<<"0">>, resultSign(a.negative, b.negative))
          ELSE /\ pc' = "idle"
               /\ last' = Last("Divide", a, b, 0, <<>>, FALSE, <<"0">>)
               /\ a' = BigInt(<<"1">>, resultSign(a.negative, b.negative))
  /\ subtractions' = 0
  /\ UNCHANGED <<b, proc>>

\* one iteration of  for b.compareValues(x) >= 0 { b.subtractor(x); subtractions++ }
DivideStep ==
  /\ pc = "divide" /\ proc = "running"
  /\ compareValues(a.value, b.value) >= 0
  /\ subtractions < MaxSubtractions
  /\ LET r == subtractor(a.value, b.value)
     IN IF r.panic
          THEN /\ proc' = "panicked"
               /\ UNCHANGED <<a, subtractions>>
          ELSE /\ a' = BigInt(r.value, a.negative)
               /\ subtractions' = subtractions + 1
               /\ UNCHANGED proc
  /\ last' = [last EXCEPT !.sub = <<a.value, b.value>>]
  /\ UNCHANGED <<b, pc>>

\* the loop's exit: the remainder is returned, the count becomes the quotient
DivideReturn ==
  /\ pc = "divide" /\ proc = "running"
  /\ compareValues(a.value, b.value) < 0
  /\ a' = BigInt(Itoa(subtractions), resultSign(a.negative, b.negative))
  /\ last' = [last EXCEPT !.remainder = a.value]
  /\ pc' = "idle"
  /\ subtractions' = 0
  /\ UNCHANGED <<b, proc>>

Next ==
  \/ AddCall
  \/ SubtractCall
  \/ MultiplyCall
  \/ NegateCall
  \/ CompareToCall
  \/ \E divisor \in Divisors : DivideByIntCall(divisor)
  \/ DivideCall
  \/ DivideStep
  \/ DivideReturn

Spec == Init /\ [][Next]_vars

\* the same program, with the loop of Divide kept running: a Go routine that
\* has entered the loop executes its next iteration, or its exit, whenever
\* one is possible (main itself may stop calling at any point)
FairSpec == Spec /\ WF_vars(DivideStep) /\ WF_vars(DivideReturn)

---------------------------------------------------------------------------
(* One instance as both operands: a.Op(a).                                 *)

FinishSelf(r, op) ==
  /\ a' = r.b
  /\ proc' = IF r.panic THEN "panicked" ELSE "running"
  /\ last' = Last(op, a, a, 0, <<>>, FALSE, <<>>)
  /\ UNCHANGED <<b, pc, subtractions>>

AddSelfCall == Ready /\ FinishSelf(AddSelf(a), "AddSelf")

SubtractSelfCall == Ready /\ FinishSelf(SubtractSelf(a), "SubtractSelf")

MultiplySelfCall == Ready /\ FinishSelf(MultiplySelf(a), "MultiplySelf")

\* a.Divide(a): compareValues of a value with itself is neither 1 nor -1,
\* so the branch taken is b.value = "1" with remainder "0", and the closing
\* sign rule compares the flag with itself
DivideSelfCall ==
  /\ Ready
  /\ compareValues(a.value, a.value) = 0
  /\ a' = BigInt(<<"1">>, resultSign(a.negative, a.negative))
  /\ last' = Last("DivideSelf", a, a, 0, <<>>, FALSE, <<"0">>)
  /\ UNCHANGED <<b, pc, subtractions, proc>>

NextAlias ==
  \/ AddSelfCall
  \/ SubtractSelfCall
  \/ MultiplySelfCall
  \/ DivideSelfCall

SpecAlias == Init /\ [][NextAlias]_vars

---------------------------------------------------------------------------
(* The magnitude subtractor alone, called as its contract allows.          *)

\* a.subtractor(b), the minuend a not smaller in magnitude than b
SubtractorCall ==
  /\ Ready
  /\ compareValues(a.value, b.value) >= 0
  /\ LET r == subtractor(a.value, b.value)
     IN /\ a' = IF r.panic THEN a ELSE BigInt(r.value, a.negative)
        /\ proc' = IF r.panic THEN "panicked" ELSE "running"
  /\ last' = Last("subtractor", a, b, 0, <<>>, FALSE, <<>>)
  /\ UNCHANGED <<b, pc, subtractions>>

NextSub == SubtractorCall

SpecSub == Init /\ [][NextSub]_vars

---------------------------------------------------------------------------
(* The same operations on operands constructed from digit strings that     *)
(* may carry leading zeros.                                                *)

\* every digit string of at most MaxLen digits, leading zeros included,
\* with or without a leading '-'
RawTexts ==
  LET mags == UNION {[1..k -> InputDigits] : k \in 1..MaxLen}
  IN mags \cup {<<"-">> \o m : m \in mags}

\* the operands as NewBigInt returns them; last.text is the receiver's text
InitRaw ==
  /\ \E ta \in RawTexts, tb \in RawTexts :
       /\ a = NewBigInt(ta).obj
       /\ b = NewBigInt(tb).obj
       /\ last = Last("init", NewBigInt(ta).obj, NewBigInt(tb).obj, 0, ta,
                      NewBigInt(ta).err, <<>>)
  /\ pc = "idle"
  /\ subtractions = 0
  /\ proc = "running"

SpecRaw == InitRaw /\ [][Next]_vars

---------------------------------------------------------------------------
(* DivideByInt by every positive machine integer.                          *)

\* every canonical digit string of at most MaxLen digits, over all digits
AllMagnitudes ==
  {m \in UNION {[1..k -> {DigitChars[d] : d \in 1..10}] : k \in 1..MaxLen} :
     Canonical(m)}

InitInt ==
  /\ \E m \in AllMagnitudes :
       /\ a = NewBigInt(m).obj
       /\ last = Last("init", NewBigInt(m).obj, NewBigInt(<<"0">>).obj, 0, <<>>,
                      FALSE, <<>>)
  /\ b = NewBigInt(<<"0">>).obj
  /\ pc = "idle"
  /\ subtractions = 0
  /\ proc = "running"

\* a.DivideByInt(divisor), a holding digits only (the scaled int holds a
\* digit, not the byte of a stray character)
DivideByIntWrappingCall(divisor) ==
  /\ Ready
  /\ \A i \in 1..Len(a.value) : IsDigitChar(a.value[i])
  /\ LET r == DivideByIntWrapping(a, divisor)
     IN /\ a' = r.b
        /\ proc' = IF r.fatal THEN "exited"
                   ELSE IF r.panic THEN "panicked" ELSE "running"
  /\ last' = Last("DivideByIntWrapping", a, b, divisor, <<>>, FALSE, <<>>)
  /\ UNCHANGED <<b, pc, subtractions>>

NextInt == \E divisor \in 1..MaxInt : DivideByIntWrappingCall(divisor)

SpecInt == InitInt /\ [][NextInt]_vars

---------------------------------------------------------------------------
(* Construction alone: NewBigInt on every text.                            *)

\* num1, _ := NewBigInt("0"), as main begins
InitNew ==
  /\ a = NewBigInt(<<"0">>).obj
  /\ b = NewBigInt(<<"0">>).obj
  /\ last = Last("init", NewBigInt(<<"0">>).obj, NewBigInt(<<"0">>).obj, 0, <<>>, FALSE, <<>>)
  /\ pc = "idle"
  /\ subtractions = 0
  /\ proc = "running"

\* a, err = NewBigInt(text)
NewBigIntCall(text) ==
  /\ pc = "idle" /\ proc = "running"
  /\ LET r == NewBigInt(text)
     IN /\ a' = IF r.panic THEN a ELSE r.obj
        /\ proc' = IF r.panic THEN "panicked" ELSE "running"
        /\ last' = Last("NewBigInt", EmptyBigInt, EmptyBigInt, 0, text, r.err, <<>>)
  /\ UNCHANGED <<b, pc, subtractions>>

NextNew == \E text \in Texts : NewBigIntCall(text)

SpecNew == InitNew /\ [][NextNew]_vars

---------------------------------------------------------------------------
(* The vocabulary of the properties: the integer a digit string denotes.   *)

RECURSIVE MagOf(_)
\* the natural number a digit string is the numeral of
MagOf(v) ==
  IF Len(v) = 0 THEN 0
  ELSE 10 * MagOf(SubSeq(v, 1, Len(v) - 1)) + RuneMinusZero(v[Len(v)])

IntOf(x) == IF x.negative THEN -MagOf(x.value) ELSE MagOf(x.value)

IsZero(x) == x.value = <<"0">>

\* canonical magnitude, and no sign on zero
WellFormed(x) == Canonical(x.value) /\ (IsZero(x) => ~x.negative)

\* the last call was op, on well-formed operands
CalledOnWellFormed(op) ==
  last.op = op /\ WellFormed(last.a0) /\ WellFormed(last.b0)

\* the last call has returned to its caller
Returned == pc = "idle" /\ proc = "running"

---------------------------------------------------------------------------
(* Properties.                                                             *)

\* C1: after Add(a, b) on well-formed operands the receiver is the
\* well-formed numeral of the signed sum a + b (the call returns, the sign
\* is that of the operand of larger magnitude, zero is non-negative).
C1_AddHoldsSignedSum ==
  CalledOnWellFormed("Add") =>
    /\ Returned
    /\ WellFormed(a)
    /\ IntOf(a) = IntOf(last.a0) + IntOf(last.b0)

\* C2: after Subtract(a, b) on well-formed operands, of any signs and any
\* magnitude order, the call has returned and the receiver is the
\* well-formed numeral of the signed difference a - b.
C2_SubtractHoldsDifference ==
  CalledOnWellFormed("Subtract") =>
    /\ Returned
    /\ WellFormed(a)
    /\ IntOf(a) = IntOf(last.a0) - IntOf(last.b0)

\* C2 witness: two negatives with the receiver the smaller magnitude, the
\* subtraction run on the argument and the difference positive
\* (the shape of "-900" - "-1000" = "100").
C2_Witness ==
  /\ CalledOnWellFormed("Subtract")
  /\ Returned
  /\ last.a0.negative /\ last.b0.negative
  /\ compareValues(last.a0.value, last.b0.value) = -1
  /\ ~a.negative
  /\ IntOf(a) = IntOf(last.a0) - IntOf(last.b0)
  /\ Len(a.value) < Len(last.b0.value)

\* C3: after Multiply(a, b) on well-formed operands the receiver's
\* magnitude is the decimal numeral of |a| * |b| and its sign is negative
\* iff exactly one operand is negative.
C3_MultiplyHoldsProduct ==
  CalledOnWellFormed("Multiply") =>
    /\ Returned
    /\ Canonical(a.value)
    /\ MagOf(a.value) = MagOf(last.a0.value) * MagOf(last.b0.value)
    /\ a.negative = (last.a0.negative # last.b0.negative)

\* C4: Divide(a, b) on well-formed operands with b non-zero never fails,
\* and when it has returned the quotient q left in a and the remainder r
\* satisfy q * |b| + r = |a| and 0 <= r < |b|.
C4_DivideQuotientRemainder ==
  (CalledOnWellFormed("Divide") /\ MagOf(last.b0.value) # 0) =>
    /\ proc = "running"
    /\ Returned =>
         /\ Canonical(a.value) /\ Canonical(last.remainder)
         /\ MagOf(a.value) * MagOf(last.b0.value) + MagOf(last.remainder)
              = MagOf(last.a0.value)
         /\ MagOf(last.remainder) < MagOf(last.b0.value)

\* C5: after DivideByInt(a, d) on a well-formed a with d positive the call
\* has returned and the receiver's magnitude is the canonical numeral of
\* floor(|a| / d), "0" when that quotient is zero.
C5_DivideByIntFloor ==
  (last.op = "DivideByInt" /\ WellFormed(last.a0) /\ last.divisor > 0) =>
    /\ Returned
    /\ Canonical(a.value)
    /\ MagOf(a.value) = MagOf(last.a0.value) \div last.divisor

\* C6: after Add, Subtract, Multiply, DivideByInt or Divide has returned
\* from well-formed operands, a value of magnitude "0" is not negative.
C6_ZeroHasNoSign ==
  (/\ Returned
   /\ last.op \in {"Add", "Subtract", "Multiply", "DivideByInt", "Divide"}
   /\ WellFormed(last.a0) /\ WellFormed(last.b0)) =>
    /\ IsZero(a) => ~a.negative
    /\ IsZero(b) => ~b.negative

\* C7: between calls, every value's magnitude is a non-empty string of
\* digits with no leading zero unless it is exactly "0" (all operands are
\* constructed from canonical digit strings).
C7_MagnitudeCanonical ==
  pc = "idle" => Canonical(a.value) /\ Canonical(b.value)

\* C8: Divide(a, b) with b of zero magnitude returns to the caller with an
\* error reported; it neither enters the loop nor returns a quotient.
C8_DivideByZeroReported ==
  (last.op = "Divide" /\ IsZero(last.b0)) =>
    /\ Returned
    /\ last.err
    /\ a = last.a0

DigitPortion(text) ==
  IF Len(text) >= 1 /\ text[1] = "-" THEN Tail(text) ELSE text

\* an optional single '-' followed by one or more decimal digits
ValidText(text) ==
  /\ Len(DigitPortion(text)) >= 1
  /\ \A i \in 1..Len(DigitPortion(text)) : IsDigitChar(DigitPortion(text)[i])

\* C10: NewBigInt(text) returns without error exactly when text is an
\* optional single '-' followed only by decimal digits, and then the value
\* is the digit portion and negative is set iff the '-' was present.
C10_NewBigIntAcceptsExactly ==
  last.op = "NewBigInt" =>
    /\ (Returned /\ ~last.err) <=> ValidText(last.text)
    /\ (Returned /\ ~last.err) =>
         /\ a.value = DigitPortion(last.text)
         /\ a.negative = (last.text[1] = "-")

\* C11: NewBigInt on a text whose digit portion is empty ("" or "-")
\* returns to the caller with the error set; it neither panics nor returns
\* a value with an empty magnitude.
C11_EmptyDigitPortionRejected ==
  (last.op = "NewBigInt" /\ Len(DigitPortion(last.text)) = 0) =>
    /\ Returned
    /\ last.err

\* C12: for every valid text whose digit portion has no superfluous leading
\* zero, NewBigInt succeeds and ToString of the value it returns is that
\* text.
C12_ToStringRoundTrip ==
  (/\ last.op = "NewBigInt"
   /\ ValidText(last.text)
   /\ Canonical(DigitPortion(last.text))) =>
    /\ Returned
    /\ ~last.err
    /\ ToString(a) = last.text

\* C12 witness: a negative two-digit text was constructed and rendered back.
C12_Witness ==
  /\ last.op = "NewBigInt" /\ Returned /\ ~last.err
  /\ Len(last.text) = 3 /\ last.text[1] = "-"
  /\ Canonical(DigitPortion(last.text))
  /\ ToString(a) = last.text

\* the sign of an integer: -1, 0 or 1
Sign(n) == IF n < 0 THEN -1 ELSE IF n > 0 THEN 1 ELSE 0

\* C13: CompareTo(a, b) on well-formed operands returns -1, 0 or 1 as the
\* signed value of a is less than, equal to or greater than that of b, and
\* leaves both operands as they were.
C13_CompareToSignedOrder ==
  CalledOnWellFormed("CompareTo") =>
    /\ Returned
    /\ last.result = Sign(IntOf(last.a0) - IntOf(last.b0))
    /\ a = last.a0 /\ b = last.b0

\* C13 witness: two negatives of different lengths, the longer one the
\* receiver, compared as smaller.
C13_Witness ==
  /\ CalledOnWellFormed("CompareTo") /\ Returned
  /\ last.a0.negative /\ last.b0.negative
  /\ Len(last.a0.value) > Len(last.b0.value)
  /\ last.result = -1
  /\ a = last.a0 /\ b = last.b0

\* C14: on well-formed operands CompareTo(a, b) = -CompareTo(b, a), and
\* CompareTo(a, a) = 0.
C14_CompareToAntisymmetric ==
  CalledOnWellFormed("CompareTo") =>
    /\ last.result = -CompareTo(last.b0, last.a0)
    /\ CompareTo(last.a0, last.a0) = 0
    /\ CompareTo(last.b0, last.b0) = 0

\* C14 witness: a negative receiver compared with a positive argument, the
\* two results opposite and non-zero.
C14_Witness ==
  /\ CalledOnWellFormed("CompareTo") /\ Returned
  /\ last.a0.negative /\ ~last.b0.negative
  /\ last.result = -1
  /\ CompareTo(last.b0, last.a0) = 1
  /\ CompareTo(last.a0, last.a0) = 0

\* C15: after Add(a, b) on well-formed operands, Subtract(a, b) on the
\* result returns and leaves a with its original sign and magnitude.
C15_AddThenSubtractRestores ==
  (CalledOnWellFormed("Add") /\ Returned) =>
    /\ ~Subtract(a, b).panic
    /\ Subtract(a, b).b = last.a0

\* C16: on well-formed operands, the value Subtract(a, b) leaves in a is the
\* value Add leaves in a copy of a when given a negated copy of b.
C16_SubtractIsAddOfNegated ==
  (CalledOnWellFormed("Subtract") /\ Returned) =>
    /\ ~Add(last.a0, Negate(last.b0)).panic
    /\ a = Add(last.a0, Negate(last.b0)).b

\* C17: after Multiply on well-formed operands one of which is "0", in
\* either position and whatever the other's sign and length, the call has
\* returned and the receiver renders as exactly "0".
C17_MultiplyByZeroIsZero ==
  (CalledOnWellFormed("Multiply") /\ (IsZero(last.a0) \/ IsZero(last.b0))) =>
    /\ Returned
    /\ ToString(a) = <<"0">>

\* C18: Negate on a well-formed value leaves the magnitude unchanged, flips
\* the sign flag of a non-zero value, and leaves the flag of a value of
\* magnitude "0" false.
C18_NegateFlipsNonZero ==
  CalledOnWellFormed("Negate") =>
    /\ Returned
    /\ a.value = last.a0.value
    /\ ~IsZero(last.a0) => a.negative = ~last.a0.negative
    /\ IsZero(last.a0) => ~a.negative

\* C19: every operation terminates on well-formed operands; the one with an
\* unbounded loop is Divide, whose repeated subtraction, once entered on
\* well-formed operands, always reaches the exit where the magnitude of a is
\* smaller than that of b and returns.  (Within MaxLen a non-zero b is
\* subtracted at most 11 times, fewer than MaxSubtractions.)
C19_DivideLoopTerminates ==
  (pc = "divide" /\ WellFormed(last.a0) /\ WellFormed(last.b0))
    ~> (pc = "idle" /\ compareValues(last.remainder, b.value) < 0)

\* C20: Add, Subtract, Multiply and Divide leave the argument, an instance
\* distinct from the receiver, with the magnitude and the sign it had before
\* the call, in every branch and at every iteration of Divide's loop.
C20_ArgumentUnchanged ==
  last.op \in {"Add", "Subtract", "Multiply", "Divide"} => b = last.b0

\* C20 witness: Add has returned from the branch that runs the subtractor
\* on the argument (receiver non-negative, argument negative and larger in
\* magnitude), the receiver changed and the argument as before.
C20_Witness ==
  /\ CalledOnWellFormed("Add") /\ Returned
  /\ ~last.a0.negative /\ last.b0.negative
  /\ compareValues(last.a0.value, last.b0.value) = -1
  /\ a.value # last.a0.value /\ a.value # last.b0.value
  /\ b = last.b0

\* C21: one instance x passed as both operands, x well-formed: the call
\* returns and Add(x, x) leaves 2x, Subtract(x, x) leaves "0",
\* Multiply(x, x) leaves x * x, and Divide(x, x) with x non-zero leaves the
\* quotient "1" and returns the remainder "0".
C21_SameInstanceWellDefined ==
  WellFormed(last.a0) =>
    /\ last.op = "AddSelf" =>
         Returned /\ WellFormed(a) /\ IntOf(a) = 2 * IntOf(last.a0)
    /\ last.op = "SubtractSelf" =>
         Returned /\ ToString(a) = <<"0">>
    /\ last.op = "MultiplySelf" =>
         Returned /\ WellFormed(a) /\ IntOf(a) = IntOf(last.a0) * IntOf(last.a0)
    /\ (last.op = "DivideSelf" /\ ~IsZero(last.a0)) =>
         Returned /\ ToString(a) = <<"1">> /\ last.remainder = <<"0">>

\* C22: subtractor called with canonical magnitudes, the minuend not
\* smaller than the subtrahend, returns and leaves in the receiver the
\* canonical decimal numeral of minuend - subtrahend (every emitted
\* character a digit, no leading zero left from borrowing); when the two
\* magnitudes are equal that numeral is exactly "0".
C22_SubtractorDifference ==
  (/\ last.op = "subtractor"
   /\ Canonical(last.a0.value) /\ Canonical(last.b0.value)) =>
    /\ Returned
    /\ Canonical(a.value)
    /\ MagOf(a.value) = MagOf(last.a0.value) - MagOf(last.b0.value)
    /\ last.a0.value = last.b0.value => a.value = <<"0">>

\* C23: in Add, Subtract and Divide on well-formed operands every call of
\* subtractor is made with a minuend whose magnitude is greater than or
\* equal to the subtrahend's.
C23_SubtractorMinuendNotSmaller ==
  (/\ last.op \in {"Add", "Subtract", "Divide"}
   /\ WellFormed(last.a0) /\ WellFormed(last.b0)
   /\ last.sub # <<>>) =>
    /\ compareValues(last.sub[1], last.sub[2]) >= 0
    /\ MagOf(last.sub[1]) >= MagOf(last.sub[2])

\* C23 witness: a later iteration of Divide's loop has called subtractor on
\* an already reduced receiver that is still larger than the argument.
C23_Witness ==
  /\ CalledOnWellFormed("Divide") /\ pc = "divide" /\ proc = "running"
  /\ subtractions >= 2
  /\ last.sub # <<>>
  /\ last.sub[1] # last.a0.value
  /\ MagOf(last.sub[1]) > MagOf(last.sub[2])
  /\ MagOf(last.sub[2]) > 0

C25_NoLeadingZeroInResults ==
  /\ last.op = "init" => (~last.err /\ a.value = DigitPortion(last.text))
  /\ (/\ last.op \in {"Add", "Subtract", "Multiply", "DivideByInt", "Divide"}
      /\ Returned) =>
       (Len(a.value) > 1 => a.value[1] # "0")

\* the canonical magnitudes of at most MaxLen digits over InputDigits
CanonMags ==
  {m \in UNION {[1..k -> InputDigits] : k \in 1..MaxLen} : Canonical(m)}

\* the leftmost position at which two different strings of one length differ
FirstDiff(u, v) ==
  CHOOSE i \in 1..Len(u) : u[i] # v[i] /\ \A j \in 1..(i - 1) : u[j] = v[j]

\* C26: compareValues, which Add, Subtract and Divide call first on their
\* operands' magnitudes whatever the signs, is a total order on canonical
\* magnitudes: the longer string is larger, equal lengths are decided by
\* the first differing digit from the left, compareValues(u, u) = 0,
\* compareValues(u, v) = -compareValues(v, u), and it is transitive.
C26_CompareValuesTotalOrder ==
  (/\ last.op \in {"Add", "Subtract", "Divide"}
   /\ Canonical(last.a0.value) /\ Canonical(last.b0.value)) =>
    LET u == last.a0.value
        v == last.b0.value
    IN /\ compareValues(u, v) \in {-1, 0, 1}
       /\ compareValues(u, v) = Sign(MagOf(u) - MagOf(v))
       /\ Len(u) > Len(v) => compareValues(u, v) = 1
       /\ (Len(u) = Len(v) /\ u # v) =>
            compareValues(u, v) =
              Sign(RuneMinusZero(u[FirstDiff(u, v)]) - RuneMinusZero(v[FirstDiff(u, v)]))
       /\ compareValues(u, u) = 0 /\ compareValues(v, v) = 0
       /\ compareValues(u, v) = 0 <=> u = v
       /\ compareValues(u, v) = -compareValues(v, u)
       /\ \A m \in CanonMags :
            /\ (compareValues(u, v) <= 0 /\ compareValues(v, m) <= 0) =>
                 compareValues(u, m) <= 0
            /\ (compareValues(m, u) <= 0 /\ compareValues(u, v) <= 0) =>
                 compareValues(m, v) <= 0
            /\ (compareValues(u, m) <= 0 /\ compareValues(m, v) <= 0) =>
                 compareValues(u, v) <= 0

\* C26 witness: Divide compared two magnitudes of one length that differ
\* only in their second digit, of opposite signs, found the receiver
\* smaller and returned without subtracting.
C26_Witness ==
  /\ last.op = "Divide" /\ Returned
  /\ Canonical(last.a0.value) /\ Canonical(last.b0.value)
  /\ last.a0.negative # last.b0.negative
  /\ Len(last.a0.value) = Len(last.b0.value)
  /\ last.a0.value # last.b0.value
  /\ FirstDiff(last.a0.value, last.b0.value) = 2
  /\ compareValues(last.a0.value, last.b0.value) = -1
  /\ last.remainder = last.a0.value

\* C27: for well-formed a and b, the string the receiver renders after
\* Add(a, b) is the string the receiver renders after Add(b, a) on fresh
\* copies, for every combination of signs and every magnitude order.
C27_AddCommutes ==
  (CalledOnWellFormed("Add") /\ Returned) =>
    /\ ~Add(last.b0, last.a0).panic
    /\ ToString(a) = ToString(Add(last.b0, last.a0).b)

\* C28: in DivideByInt on a well-formed receiver, for every divisor from 1
\* to the largest int, each window carry*10 + digit fits the int (it is
\* stored unchanged), each carry is in 0..divisor-1 and each quotient
\* written is a single digit 0..9.
C28_WindowFitsInt ==
  (last.op = "DivideByIntWrapping" /\ WellFormed(last.a0)) =>
    LET trace == divideByIntLoopWrapping(last.a0.value, last.divisor, 1, 0,
                                         <<>>, <<>>).trace
    IN \A i \in 1..Len(trace) :
         /\ trace[i].window >= 0 /\ trace[i].window <= MaxInt
         /\ WrapInt(trace[i].window) = trace[i].window
         /\ trace[i].carry >= 0 /\ trace[i].carry < last.divisor
         /\ Len(trace[i].quotient) = 1 /\ IsDigitChar(trace[i].quotient[1])

===========================================================================
